---- MODULE Spec2Model ----
(***************************************************************************)
(* Retrieval-and-ranking pipeline of ollama-semantic-search.               *)
(*                                                                         *)
(* Two orchestrator scripts are modelled by one state machine:             *)
(*   variant = "modeSwitch"   : src/unnamed/part_000 (search/general       *)
(*                              switch, REQUIRED_LINKS scan, fallback)     *)
(*   variant = "alwaysSearch" : src/unnamed/part_001 (slice(0, 10), no     *)
(*                              general answer)                            *)
(* The embedding client is src/src/embedding.ts.                           *)
(*                                                                         *)
(* Every await of the scripts is a suspension point; an action is the      *)
(* synchronous code that runs from one await's resolution to the next      *)
(* await.  pc names the await the script is suspended at.                  *)
(*                                                                         *)
(* Texts are represented by their length in characters (after the          *)
(* whitespace collapse), urls by the position of the result in the search  *)
(* result list (search results carry distinct urls).                       *)
(***************************************************************************)
EXTENDS Integers, Sequences, FiniteSets

\* ------------------------------------------------------------------ bounds
MaxResults == 12        \* longest search-result list the search stub returns
MaxRankSources == 4     \* longest source list handed to the ranker in SpecRank
MaxStreamObjects == 2   \* most JSON objects in a generation stream in SpecStream
MaxFaults == 3          \* most page fetches without valid text plus failed
                        \* embedding requests during one query
MaxStaleTimers == 1     \* most timers of returned page fetches still set at a time
MaxTieSources == 7      \* longest source list handed to the ranker in SpecRankTies

\* --------------------------------------------------------- program constants
REQUIRED_LINKS == 10
SLICE_LIMIT == 10
MAX_CONTENT_LENGTH == 3000
MIN_VALID_LENGTH == 100
TOP_K == 3

Variants == {"modeSwitch", "alwaysSearch"}

\* lengths of the text the extraction yields for a page
PageLens == {100, 101}
\* HTTP status of a page response
PageStatuses == {200, 404}
\* embedding vectors the embedding endpoint may answer with ( <<>> : the
\* `|| []` default of a response without an embedding)
Vecs == {<< >>, <<1, 0>>, <<0, 1>>, <<-1, 0>>, <<2, 0>>, <<0, 0>>, <<1>>}

Min(a, b) == IF a < b THEN a ELSE b

\* String.prototype.length on a text represented by its length
Length(t) == t

\* String.prototype.substring(0, n)
Substring0(t, n) == Min(t, n)

\* Array.prototype.slice(from, to) with 0 <= from <= to
Slice(arr, from, to) == SubSeq(arr, from + 1, Min(to, Len(arr)))

VARIABLES
    variant,        \* which script runs
    pc,             \* the await the script is suspended at
    query,          \* kind of the query read by prompt()
    results,        \* searchWeb's result list
    currentIndex,   \* currentIndex (part_000) / i (part_001), 0-based
    sources,        \* the accumulator of valid sources
    content,        \* main's content while it resumes from fetchPageContent
    status,         \* status of the page response, 0 while none has arrived
    processedText,  \* fetchPageContent's processedText while embedding
    caller,         \* who awaits getEmbedding: "page" / "query" / "none"
    modelEnsured,   \* embedding.ts module flag
    embedFailures,  \* getEmbedding requests of this query that have failed
    searchOutcome,  \* "none" / "ok" / "fail" for the current query
    fetchCount,     \* fetchPageContent invocations for the current query
    collected,      \* the collection loop of the current query has ended
    queryEmbedding, \* generateWebAnswer's queryEmbedding
    ranked,         \* generateWebAnswer's ranked
    genCalls,       \* Answer Generator calls of the current query, in order
    ensureLog,      \* outcomes of ensureEmbeddingModelRunning, in order
    timerArmed,     \* the abort timer of the pending fetchPageContent call is
                    \* set and not cleared
    staleTimers,    \* abort timers of returned fetchPageContent calls that
                    \* are still set: neither cleared nor fired
    inflight,       \* fetchPageContent calls that have not returned
    fetchLog,       \* urls handed to fetchPageContent for the current query
    stream,         \* the JSON objects the generation endpoint sends to the
                    \* generateStreamingAnswer call of this query last begun
    chunks,         \* chunks of the stream reader.read() has yet to deliver
    answer,         \* generateStreamingAnswer's answer
    echoed          \* the answer text written to stdout since the query was
                    \* read (fragments as they arrive, the printed answer)

vars == <<variant, pc, query, results, currentIndex, sources, content, status,
          processedText, caller, modelEnsured, embedFailures, searchOutcome,
          fetchCount, collected, queryEmbedding, ranked, genCalls,
          ensureLog, timerArmed, staleTimers, inflight, fetchLog, stream,
          chunks, answer, echoed>>

\* the variables of the answer stream
streamVars == <<stream, chunks, answer, echoed>>

NoContent == [url |-> 0, text |-> 0, embedding |-> << >>]
EmptySource(u) == [url |-> u, text |-> 0, embedding |-> << >>]

\* ------------------------------------------------------------- arithmetic
\* A JavaScript number: either NaN or a value.
Num(v) == [nan |-> FALSE, val |-> v]
NaN == [nan |-> TRUE, val |-> 0]

\* x / y for a dot product x and a product of magnitudes y: 0/0 is NaN
\* (x # 0 with y = 0 cannot happen).  The vectors of Vecs have integral
\* magnitudes and cosines, so the quotient is exact.
Divide(x, y) == IF y = 0 THEN NaN ELSE Num(x \div y)

\* x - y
Minus(x, y) == IF x.nan \/ y.nan THEN NaN ELSE Num(x.val - y.val)

\* Math.sqrt on a perfect square
Sqrt(n) == CHOOSE r \in 0..n : r * r = n

RECURSIVE SeqSum(_)
SeqSum(s) == IF s = << >> THEN 0 ELSE Head(s) + SeqSum(Tail(s))

\* mutant of cosineSimilarity: the guard tests only for an empty vecA, and
\* a product with a missing element is NaN
cosineSimilarityUnguarded(vecA, vecB) ==
    IF Len(vecA) = 0 THEN Num(0)
    ELSE IF Len(vecA) > Len(vecB) THEN NaN
    ELSE LET dotProduct == SeqSum([i \in 1..Len(vecA) |-> vecA[i] * vecB[i]])
             magA == Sqrt(SeqSum([i \in 1..Len(vecA) |-> vecA[i] * vecA[i]]))
             magB == Sqrt(SeqSum([i \in 1..Len(vecB) |-> vecB[i] * vecB[i]]))
         IN  Divide(dotProduct, magA * magB)

\* if (length differs || empty) return 0; dotProduct / (magA * magB)
cosineSimilarity(vecA, vecB) ==
    IF Len(vecA) # Len(vecB) \/ Len(vecA) = 0 THEN Num(0)
    ELSE LET dotProduct == SeqSum([i \in 1..Len(vecA) |-> vecA[i] * vecB[i]])
             magA == Sqrt(SeqSum([i \in 1..Len(vecA) |-> vecA[i] * vecA[i]]))
             magB == Sqrt(SeqSum([i \in 1..Len(vecB) |-> vecB[i] * vecB[i]]))
         IN  Divide(dotProduct, magA * magB)


\* ------------------------------------------------- Array.prototype.sort
\* The engine's sort for arrays shorter than 64 elements: the leading run is
\* found (and reversed when strictly descending), the rest is inserted by
\* binary insertion.  A comparator result of NaN is taken as 0.  With a
\* consistent comparator this is the stable sort of the language standard.

\* (a, b) => b.similarity - a.similarity
compareFn(a, b) == Minus(b.similarity, a.similarity)

SortCompare(x, y) ==
    LET v == compareFn(x, y) IN IF v.nan THEN 0 ELSE v.val

Reverse(s) == [i \in 1..Len(s) |-> s[Len(s) + 1 - i]]

RECURSIVE RunEnd(_, _, _)
\* length of the run of arr that starts at its first element; idx is the
\* (1-based) element examined next
RunEnd(arr, idx, isDescending) ==
    IF idx > Len(arr) THEN Len(arr)
    ELSE LET order == SortCompare(arr[idx], arr[idx - 1])
         IN  IF (isDescending /\ order >= 0) \/ (~isDescending /\ order < 0)
             THEN idx - 1
             ELSE RunEnd(arr, idx + 1, isDescending)

CountAndMakeRun(arr) ==
    LET isDescending == SortCompare(arr[2], arr[1]) < 0
        runLength == RunEnd(arr, 3, isDescending)
    IN  [arr |-> IF isDescending
                 THEN Reverse(SubSeq(arr, 1, runLength))
                      \o SubSeq(arr, runLength + 1, Len(arr))
                 ELSE arr,
         runLength |-> runLength]

RECURSIVE BinarySearch(_, _, _, _)
\* insertion point (0-based) of pivot in arr[left .. right-1]
BinarySearch(arr, pivot, left, right) ==
    IF left >= right THEN left
    ELSE LET mid == left + ((right - left) \div 2)
             order == SortCompare(pivot, arr[mid + 1])
         IN  IF order < 0
             THEN BinarySearch(arr, pivot, left, mid)
             ELSE BinarySearch(arr, pivot, mid + 1, right)

RECURSIVE BinaryInsertionSort(_, _)
\* arr[0 .. start-1] is sorted; insert arr[start], arr[start+1], ...
BinaryInsertionSort(arr, start) ==
    IF start >= Len(arr) THEN arr
    ELSE LET pivot == arr[start + 1]
             left == BinarySearch(arr, pivot, 0, start)
         IN  BinaryInsertionSort(
                 SubSeq(arr, 1, left) \o <<pivot>>
                     \o SubSeq(arr, left + 1, start)
                     \o SubSeq(arr, start + 2, Len(arr)),
                 start + 1)

ArraySort(arr) ==
    IF Len(arr) < 2 THEN arr
    ELSE LET run == CountAndMakeRun(arr)
         IN  IF run.runLength < Len(arr)
             THEN BinaryInsertionSort(run.arr, run.runLength)
             ELSE run.arr

\* ------------------------------------------------------- Relevance Ranker
\* sources.map(source => ({...source, similarity: ...}))
WithSimilarity(qe, srcs) ==
    [i \in 1..Len(srcs) |->
        [url |-> srcs[i].url, text |-> srcs[i].text,
         embedding |-> srcs[i].embedding,
         similarity |-> cosineSimilarity(qe, srcs[i].embedding)]]

\* generateWebAnswer / generateAnswer: map, sort, slice(0, 3)
Rank(qe, srcs) == Slice(ArraySort(WithSimilarity(qe, srcs)), 0, TOP_K)

\* the [Source: <url>] tags of the web-grounded prompt, in prompt order
PromptTags(rk) == [i \in 1..Len(rk) |-> rk[i].url]

\* ------------------------------------------------------ external services
Queries == {"null", "exit", "plain", "trigger"}

\* the embedding endpoint is a function of the text: page u / the query
EmbeddingOfPage(u) ==
    IF u % 3 = 1 THEN <<1, 0>> ELSE IF u % 3 = 2 THEN <<0, 1>> ELSE <<-1, 0>>
EmbeddingOfQuery == <<1, 0>>

\* searchWeb's data.results.map(...): n results with distinct urls
SearchResults(n) == [i \in 1..n |-> [url |-> i]]

\* ------------------------------------------------------------ orchestrator
\* !query || query.toLowerCase() === "exit"
IsExit(q) == q \in {"null", "exit"}

\* mutant of HasTrigger: the test inverted
HasTriggerInverted(q) == q # "trigger"

\* query.toLowerCase().includes("search")
HasTrigger(q) == q = "trigger"

\* mutants of ScanContinues: the quota test off by one; a fixed-size slice
\* of the result list; no quota test
ScanContinuesOffByOne(srcs, idx, res) ==
    Len(srcs) <= REQUIRED_LINKS /\ idx < Len(res)

ScanStopsAtSlice(srcs, idx, res) ==
    Len(srcs) < REQUIRED_LINKS /\ idx < Len(Slice(res, 0, SLICE_LIMIT))

ScanIgnoresQuota(srcs, idx, res) == idx < Len(res)

\* part_000: the while condition and the explicit break of the scan
ScanContinues(srcs, idx, res) ==
    /\ Len(srcs) < REQUIRED_LINKS /\ idx < Len(res)
    /\ ~(idx >= Len(res) /\ Len(srcs) < REQUIRED_LINKS)

\* part_001: for (i < linksToFetch.length) over results.slice(0, 10)
SliceContinues(srcs, idx, res) == idx < Len(Slice(res, 0, SLICE_LIMIT))

KeepScanning(srcs, idx, res) ==
    IF variant = "modeSwitch" THEN ScanContinues(srcs, idx, res)
    ELSE SliceContinues(srcs, idx, res)

\* mutant of IsValid: a source with an empty embedding is not kept
IsValidEmbedded(c) ==
    Length(c.text) > MIN_VALID_LENGTH /\ c.embedding # << >>

\* mutant of IsValid: >= for >
IsValidAtLeast(c) == Length(c.text) >= MIN_VALID_LENGTH

\* content.text.length > 100
IsValid(c) == Length(c.text) > MIN_VALID_LENGTH

\* sources.length === 0
NoSources(srcs) == Len(srcs) = 0

\* a call of the Answer Generator: the prompt kind, the calling line of
\* main, the citation tags of the prompt and how the call ended
GenCall(prompt, site, tags) ==
    [prompt |-> prompt, site |-> site, tags |-> tags, outcome |-> "pending"]

\* mutant of EmbedEntry: the flag is not consulted
EmbedEntryAlwaysEnsures == "Ensure"

\* getEmbedding's first statement: if (!modelEnsured) await ensure...()
EmbedEntry == IF modelEnsured THEN "Embedding" ELSE "Ensure"

\* mutant of FetchUrl: the index is not used
FetchUrlFirst(idx, res) == res[1].url

\* results[currentIndex].url / linksToFetch[i].url handed to fetchPageContent
FetchUrl(idx, res) == res[idx + 1].url

\* main from the loop test on, up to its next await, with the accumulator
\* srcs, the index idx and the result list res
Proceed(srcs, idx, res) ==
    IF KeepScanning(srcs, idx, res)
    THEN [pc |-> "Fetching", fetches |-> 1, collected |-> FALSE,
          caller |-> "none", calls |-> << >>,
          urls |-> <<FetchUrl(idx, res)>>]
    ELSE IF NoSources(srcs)
    THEN IF variant = "modeSwitch"
         THEN [pc |-> "Generating", fetches |-> 0, collected |-> TRUE,
               caller |-> "none", calls |-> <<GenCall("general", 189, << >>)>>,
               urls |-> << >>]
         ELSE [pc |-> "AwaitQuery", fetches |-> 0, collected |-> TRUE,
               caller |-> "none", calls |-> << >>, urls |-> << >>]
    ELSE [pc |-> EmbedEntry, fetches |-> 0, collected |-> TRUE,
          caller |-> "query", calls |-> << >>, urls |-> << >>]

\* ---------------------------------------------------- the answer stream
\* the line feed that ends each JSON object of the stream
NL == "\n"

\* the values of the response field
Fragments == {"a", "b"}

\* a serialised JSON object, character by character: without a response
\* field, or with the response f
ObjectLines == {<<"{", "}">>} \cup {<<"{", f, "}">> : f \in Fragments}

\* the streams of up to MaxStreamObjects objects
Streams == UNION {[1..n -> ObjectLines] : n \in 0..MaxStreamObjects}

\* the characters of a stream: each object followed by a line feed
RECURSIVE Serialise(_)
Serialise(objs) ==
    IF objs = << >> THEN << >>
    ELSE Head(objs) \o <<NL>> \o Serialise(Tail(objs))

SetMax(S) == CHOOSE x \in S : \A y \in S : y <= x

\* the chunks of s when the transport cuts it after the positions cuts
RECURSIVE ChunksOf(_, _)
ChunksOf(s, cuts) ==
    IF cuts = {} THEN (IF s = << >> THEN << >> ELSE <<s>>)
    ELSE LET c == SetMax(cuts)
         IN  Append(ChunksOf(SubSeq(s, 1, c), cuts \ {c}),
                    SubSeq(s, c + 1, Len(s)))

\* chunk.split('\n')
RECURSIVE Split(_)
Split(s) ==
    IF \A i \in 1..Len(s) : s[i] # NL THEN <<s>>
    ELSE LET i == CHOOSE k \in 1..Len(s) :
                      s[k] = NL /\ \A j \in 1..(k - 1) : s[j] # NL
         IN  <<SubSeq(s, 1, i - 1)>> \o Split(SubSeq(s, i + 1, Len(s)))

\* .filter(line => line.trim() !== '')
NonBlank(line) == line # << >>

\* JSON.parse(line): does it return, and the response field of the object
JSONParse(line) ==
    IF /\ Len(line) \in {2, 3}
       /\ line[1] = "{"
       /\ line[Len(line)] = "}"
       /\ Len(line) = 3 => line[2] \in Fragments
    THEN [ok |-> TRUE,
          response |-> IF Len(line) = 3 THEN <<line[2]>> ELSE << >>]
    ELSE [ok |-> FALSE, response |-> << >>]

\* the for loop over the lines of a chunk: what it adds to answer and stdout
RECURSIVE Responses(_)
Responses(lines) ==
    IF lines = << >> THEN << >>
    ELSE LET parsed == JSONParse(Head(lines))
         IN  (IF parsed.ok THEN parsed.response ELSE << >>)
                 \o Responses(Tail(lines))

\* one turn of the while loop on the chunk value
ProcessChunk(value) == Responses(SelectSeq(Split(value), NonBlank))

\* the cuts that deliver each line of the stream in a chunk of its own
LineEnds(objs) ==
    {i \in 1..(Len(Serialise(objs)) - 1) : Serialise(objs)[i] = NL}

\* the streams the generation endpoint sends to main: two objects with a
\* response each
MainStreams == {<<<<"{", "a", "}">>, <<"{", "b", "}">>>>}

\* ------------------------------------------------------------------ main
Init ==
    /\ variant \in Variants
    /\ pc = "AwaitQuery"
    /\ query = "null"
    /\ results = << >>
    /\ currentIndex = 0
    /\ sources = << >>
    /\ content = NoContent
    /\ status = 0
    /\ processedText = 0
    /\ caller = "none"
    /\ modelEnsured = FALSE
    /\ embedFailures = 0
    /\ searchOutcome = "none"
    /\ fetchCount = 0
    /\ collected = FALSE
    /\ queryEmbedding = << >>
    /\ ranked = << >>
    /\ genCalls = << >>
    /\ ensureLog = << >>
    /\ timerArmed = FALSE
    /\ staleTimers = 0
    /\ inflight = 0
    /\ fetchLog = << >>
    /\ stream = << >>
    /\ chunks = << >>
    /\ answer = << >>
    /\ echoed = << >>

\* prompt() returns null, "" or "exit": break
ReadExit ==
    /\ pc = "AwaitQuery"
    /\ \E q \in {x \in Queries : IsExit(x)} : query' = q
    /\ pc' = "Exited"
    /\ UNCHANGED <<variant, results, currentIndex, sources, content, status,
                   processedText, caller, modelEnsured, embedFailures, searchOutcome,
                   fetchCount, collected, queryEmbedding, ranked, genCalls>>
    /\ UNCHANGED <<ensureLog, staleTimers, timerArmed, inflight, fetchLog, streamVars>>

\* prompt() returns a query: Classify
ReadQuery ==
    /\ pc = "AwaitQuery"
    /\ \E q \in {x \in Queries : ~IsExit(x)} :
        /\ query' = q
        /\ embedFailures' = 0
        /\ IF variant = "modeSwitch" /\ ~HasTrigger(q)
           THEN /\ pc' = "Generating"
                /\ genCalls' = <<GenCall("general", 152, << >>)>>
           ELSE /\ pc' = "Searching"
                /\ genCalls' = << >>
    /\ results' = << >>
    /\ currentIndex' = 0
    /\ sources' = << >>
    /\ content' = NoContent
    /\ status' = 0
    /\ processedText' = 0
    /\ caller' = "none"
    /\ searchOutcome' = "none"
    /\ fetchCount' = 0
    /\ collected' = FALSE
    /\ queryEmbedding' = << >>
    /\ ranked' = << >>
    /\ UNCHANGED <<variant, modelEnsured>>
    /\ fetchLog' = << >>
    /\ stream' = << >>
    /\ chunks' = << >>
    /\ answer' = << >>
    /\ echoed' = << >>
    /\ UNCHANGED <<ensureLog, staleTimers, timerArmed, inflight>>

\* searchWeb throws (non-2xx, network error, malformed body): the catch
\* block of main
SearchFails ==
    /\ pc = "Searching"
    /\ searchOutcome' = "fail"
    /\ IF variant = "modeSwitch"
       THEN /\ pc' = "Generating"
            /\ genCalls' = Append(genCalls, GenCall("general", 197, << >>))
       ELSE /\ pc' = "AwaitQuery"
            /\ UNCHANGED genCalls
    /\ UNCHANGED <<variant, query, results, currentIndex, sources, content,
                   status, processedText, caller, modelEnsured, embedFailures,
                   fetchCount, collected, queryEmbedding, ranked>>
    /\ UNCHANGED <<ensureLog, staleTimers, timerArmed, inflight, fetchLog, streamVars>>

\* searchWeb returns n results; the collection loop starts
SearchOk ==
    /\ pc = "Searching"
    /\ \E n \in 0..MaxResults :
        LET res == SearchResults(n)
            go == Proceed(<< >>, 0, res)
        IN  /\ results' = res
            /\ pc' = go.pc
            /\ fetchCount' = go.fetches
            /\ collected' = go.collected
            /\ caller' = go.caller
            /\ genCalls' = genCalls \o go.calls
            /\ fetchLog' = fetchLog \o go.urls
            /\ inflight' = inflight + go.fetches
            /\ timerArmed' = (go.fetches = 1)
    /\ searchOutcome' = "ok"
    /\ UNCHANGED <<variant, query, currentIndex, sources, content, status,
                   processedText, modelEnsured, embedFailures, queryEmbedding,
                   ranked>>
    /\ UNCHANGED <<ensureLog, staleTimers, streamVars>>

\* fetchPageContent(url) returns c to the awaiting main
FetchReturns(c) ==
    /\ content' = c
    /\ pc' = "Returned"
    /\ processedText' = 0
    /\ caller' = "none"
    /\ UNCHANGED <<sources, currentIndex, fetchCount, collected, genCalls>>
    /\ inflight' = inflight - 1
    /\ timerArmed' = FALSE
    /\ UNCHANGED fetchLog

\* main resumes with content: the rest of the loop body, the loop test and
\* whatever main does up to its next await
Resume ==
    /\ pc = "Returned"
    /\ LET srcs == IF IsValid(content) THEN Append(sources, content) ELSE sources
           idx == currentIndex + 1
           go == Proceed(srcs, idx, results)
       IN  /\ sources' = srcs
           /\ currentIndex' = idx
           /\ pc' = go.pc
           /\ fetchCount' = fetchCount + go.fetches
           /\ collected' = go.collected
           /\ caller' = go.caller
           /\ genCalls' = genCalls \o go.calls
           /\ fetchLog' = fetchLog \o go.urls
           /\ inflight' = inflight + go.fetches
           /\ timerArmed' = (go.fetches = 1)
    /\ content' = NoContent
    /\ status' = 0
    /\ UNCHANGED <<variant, query, results, processedText, modelEnsured,
                   embedFailures, searchOutcome, queryEmbedding, ranked>>
    /\ UNCHANGED <<ensureLog, staleTimers, streamVars>>

CurrentUrl == results[currentIndex + 1].url

\* pages of this query scanned and not kept
Skipped == currentIndex - Len(sources)

\* may another page fetch end without valid text, or another embedding
\* request fail, during this query
MayFault == Skipped + embedFailures < MaxFaults

\* the timer fires while await fetch(url) is pending: controller.abort(),
\* the fetch rejects and the catch block returns the empty Source
TimerFires ==
    /\ pc = "Fetching"
    /\ timerArmed
    /\ MayFault
    /\ FetchReturns(EmptySource(CurrentUrl))
    /\ UNCHANGED <<variant, query, results, status, modelEnsured, embedFailures,
                   searchOutcome, queryEmbedding, ranked>>
    /\ UNCHANGED <<ensureLog, staleTimers, streamVars>>

\* await fetch(url) rejects with a network error: the catch block returns
\* the empty Source and the timer of this call stays set (no clearTimeout ran)
FetchThrows ==
    /\ pc = "Fetching"
    /\ staleTimers < MaxStaleTimers
    /\ MayFault
    /\ FetchReturns(EmptySource(CurrentUrl))
    /\ staleTimers' = staleTimers + 1
    /\ UNCHANGED <<variant, query, results, status, modelEnsured,
                   embedFailures, searchOutcome, queryEmbedding, ranked>>
    /\ UNCHANGED <<ensureLog, streamVars>>

\* the timer of a returned call fires: controller.abort() on a request that
\* has ended, with no effect
StaleTimerFires ==
    /\ staleTimers > 0
    /\ pc \notin {"Fatal", "Crashed"}
    /\ staleTimers' = staleTimers - 1
    /\ UNCHANGED <<variant, pc, query, results, currentIndex, sources, content,
                   status, processedText, caller, modelEnsured, embedFailures,
                   searchOutcome, fetchCount, collected, queryEmbedding,
                   ranked, genCalls>>
    /\ UNCHANGED <<ensureLog, timerArmed, inflight, fetchLog, streamVars>>

\* await fetch(url) resolves with a response of any status; clearTimeout
FetchResponds ==
    /\ pc = "Fetching"
    /\ \E st \in PageStatuses : status' = st
    /\ pc' = "ReadingBody"
    /\ UNCHANGED <<variant, query, results, currentIndex, sources, content,
                   processedText, caller, modelEnsured, embedFailures, searchOutcome,
                   fetchCount, collected, queryEmbedding, ranked, genCalls>>
    /\ timerArmed' = FALSE
    /\ UNCHANGED <<ensureLog, staleTimers, inflight, fetchLog, streamVars>>

\* await response.text() rejects, or the extraction throws
BodyThrows ==
    /\ pc = "ReadingBody"
    /\ MayFault
    /\ FetchReturns(EmptySource(CurrentUrl))
    /\ UNCHANGED <<variant, query, results, status, modelEnsured, embedFailures,
                   searchOutcome, queryEmbedding, ranked>>
    /\ UNCHANGED <<ensureLog, staleTimers, streamVars>>

\* the body arrives; text of length len is extracted, collapsed, truncated
\* and handed to getEmbedding
BodyRead ==
    /\ pc = "ReadingBody"
    /\ \E len \in PageLens :
        /\ len > MIN_VALID_LENGTH \/ MayFault
        /\ processedText' = Substring0(len, MAX_CONTENT_LENGTH)
    /\ caller' = "page"
    /\ pc' = EmbedEntry
    /\ UNCHANGED <<variant, query, results, currentIndex, sources, content,
                   status, modelEnsured, embedFailures, searchOutcome, fetchCount,
                   collected, queryEmbedding, ranked, genCalls>>
    /\ UNCHANGED <<ensureLog, staleTimers, timerArmed, inflight, fetchLog, streamVars>>

\* ensureEmbeddingModelRunning succeeds (model listed, or pulled)
EnsureOk ==
    /\ pc = "Ensure"
    /\ modelEnsured' = TRUE
    /\ pc' = "Embedding"
    /\ UNCHANGED <<variant, query, results, currentIndex, sources, content,
                   status, processedText, caller, embedFailures, searchOutcome,
                   fetchCount, collected, queryEmbedding, ranked, genCalls>>
    /\ ensureLog' = Append(ensureLog, "ok")
    /\ UNCHANGED <<timerArmed, staleTimers, inflight, fetchLog, streamVars>>

\* mutant of EnsureFails: the failure is thrown to main's catch block instead
\* of ending the process
EnsureFailsCaught ==
    /\ pc = "Ensure"
    /\ pc' = "AwaitQuery"
    /\ UNCHANGED <<variant, query, results, currentIndex, sources, content,
                   status, processedText, caller, modelEnsured, embedFailures,
                   searchOutcome, fetchCount, collected, queryEmbedding,
                   ranked, genCalls>>
    /\ ensureLog' = Append(ensureLog, "fail")
    /\ UNCHANGED <<timerArmed, staleTimers, inflight, fetchLog, streamVars>>

\* ensureEmbeddingModelRunning fails: Deno.exit(1)
EnsureFails ==
    /\ pc = "Ensure"
    /\ pc' = "Fatal"
    /\ UNCHANGED <<variant, query, results, currentIndex, sources, content,
                   status, processedText, caller, modelEnsured, embedFailures,
                   searchOutcome, fetchCount, collected, queryEmbedding,
                   ranked, genCalls>>
    /\ ensureLog' = Append(ensureLog, "fail")
    /\ UNCHANGED <<timerArmed, staleTimers, inflight, fetchLog, streamVars>>

\* mutant of EmbeddingResult: a failed request still yields the vector
EmbeddingResultNoFallback(ok, vec) == vec

\* getEmbedding's request ends: the vector of the answer (ok), or [] on any
\* failure
EmbeddingResult(ok, vec) == IF ok THEN vec ELSE << >>

\* may this request end as ok says
EmbedOutcome(ok) == ok \/ MayFault

\* the failed requests after one that ended as ok says
FailuresAfter(ok) == IF ok THEN embedFailures ELSE embedFailures + 1

\* getEmbedding(processedText) returns inside fetchPageContent
EmbedPage ==
    /\ pc = "Embedding"
    /\ caller = "page"
    /\ \E ok \in BOOLEAN :
        /\ EmbedOutcome(ok)
        /\ FetchReturns([url |-> CurrentUrl, text |-> processedText,
                         embedding |->
                             EmbeddingResult(ok, EmbeddingOfPage(CurrentUrl))])
        /\ embedFailures' = FailuresAfter(ok)
    /\ UNCHANGED <<variant, query, results, status, modelEnsured,
                   searchOutcome, queryEmbedding, ranked>>
    /\ UNCHANGED <<ensureLog, staleTimers, streamVars>>

\* line of main that awaits the web-grounded generation
WebSite == IF variant = "modeSwitch" THEN 192 ELSE 153

\* getEmbedding(query) returns inside generateWebAnswer / generateAnswer:
\* rank, build the prompt, post it to the generation endpoint
EmbedQuery ==
    /\ pc = "Embedding"
    /\ caller = "query"
    /\ \E ok \in BOOLEAN :
        LET qe == EmbeddingResult(ok, EmbeddingOfQuery)
            rk == Rank(qe, sources)
        IN  /\ EmbedOutcome(ok)
            /\ queryEmbedding' = qe
            /\ ranked' = rk
            /\ genCalls' = Append(genCalls,
                                  GenCall("web", WebSite, PromptTags(rk)))
            /\ embedFailures' = FailuresAfter(ok)
    /\ caller' = "none"
    /\ pc' = "Generating"
    /\ UNCHANGED <<variant, query, results, currentIndex, sources, content,
                   status, processedText, modelEnsured, searchOutcome,
                   fetchCount, collected>>
    /\ UNCHANGED <<ensureLog, staleTimers, timerArmed, inflight, fetchLog, streamVars>>

Ended(calls, how) ==
    [i \in 1..Len(calls) |->
        IF i = Len(calls)
        THEN [prompt |-> calls[i].prompt, site |-> calls[i].site,
              tags |-> calls[i].tags, outcome |-> how]
        ELSE calls[i]]

PendingSite == genCalls[Len(genCalls)].site

\* await fetch of the generation endpoint resolves with an ok response:
\* reader, decoder, answer = ""
GenerateResponds ==
    /\ pc = "Generating"
    /\ \E objs \in MainStreams :
        /\ stream' = objs
        /\ chunks' = ChunksOf(Serialise(objs), LineEnds(objs))
    /\ answer' = << >>
    /\ pc' = "Streaming"
    /\ UNCHANGED <<variant, query, results, currentIndex, sources, content,
                   status, processedText, caller, modelEnsured, embedFailures,
                   searchOutcome, fetchCount, collected, queryEmbedding,
                   ranked, genCalls>>
    /\ UNCHANGED <<ensureLog, staleTimers, timerArmed, inflight, fetchLog,
                   echoed>>

\* await reader.read() delivers the next chunk
ReadChunk ==
    /\ pc = "Streaming"
    /\ chunks # << >>
    /\ answer' = answer \o ProcessChunk(Head(chunks))
    /\ echoed' = echoed \o ProcessChunk(Head(chunks))
    /\ chunks' = Tail(chunks)
    /\ UNCHANGED <<variant, pc, query, results, currentIndex, sources, content,
                   status, processedText, caller, modelEnsured, embedFailures,
                   searchOutcome, fetchCount, collected, queryEmbedding,
                   ranked, genCalls>>
    /\ UNCHANGED <<ensureLog, staleTimers, timerArmed, inflight, fetchLog, stream>>

\* what main writes to stdout of the answer returned to it: the always-search
\* script prints it under "Final Answer", the mode-switch script discards it
FinalAnswer(ans) == IF variant = "alwaysSearch" THEN ans ELSE << >>

\* await reader.read() reports done: break, return answer; main prints what
\* its script prints of it and reads the next query
StreamEnd ==
    /\ pc = "Streaming"
    /\ chunks = << >>
    /\ genCalls' = Ended(genCalls, "ok")
    /\ echoed' = echoed \o FinalAnswer(answer)
    /\ pc' = "AwaitQuery"
    /\ UNCHANGED <<variant, query, results, currentIndex, sources, content,
                   status, processedText, caller, modelEnsured, embedFailures,
                   searchOutcome, fetchCount, collected, queryEmbedding,
                   ranked>>
    /\ UNCHANGED <<ensureLog, staleTimers, timerArmed, inflight, fetchLog,
                   stream, chunks, answer>>

\* is the awaiting line of main inside its try block
InsideTry(site) == site \in {189, 192, 153}

\* the generation call throws: a network error or a non-2xx response
\* ("http"), or reader.read() rejects while the stream is read ("stream");
\* the call's reader and answer are gone, what it echoed stays on stdout
GenerateFails ==
    /\ \E how \in {"http", "stream"} :
        /\ pc = IF how = "http" THEN "Generating" ELSE "Streaming"
        /\ IF InsideTry(PendingSite)
           THEN IF variant = "modeSwitch"
                THEN /\ genCalls' = Append(Ended(genCalls, how),
                                           GenCall("general", 197, << >>))
                     /\ pc' = "Generating"
                ELSE /\ genCalls' = Ended(genCalls, how)
                     /\ pc' = "AwaitQuery"
           ELSE /\ genCalls' = Ended(genCalls, how)
                /\ pc' = "Crashed"
    /\ UNCHANGED <<variant, query, results, currentIndex, sources, content,
                   status, processedText, caller, modelEnsured, embedFailures,
                   searchOutcome, fetchCount, collected, queryEmbedding,
                   ranked>>
    /\ stream' = << >>
    /\ chunks' = << >>
    /\ answer' = << >>
    /\ UNCHANGED <<ensureLog, staleTimers, timerArmed, inflight, fetchLog,
                   echoed>>

Next ==
    \/ ReadExit
    \/ ReadQuery
    \/ SearchFails
    \/ SearchOk
    \/ TimerFires
    \/ FetchThrows
    \/ StaleTimerFires
    \/ Resume
    \/ FetchResponds
    \/ BodyThrows
    \/ BodyRead
    \/ EnsureOk
    \/ EnsureFails
    \/ EmbedPage
    \/ EmbedQuery
    \/ GenerateResponds
    \/ ReadChunk
    \/ StreamEnd
    \/ GenerateFails

Spec == Init /\ [][Next]_vars

TypeOK ==
    /\ variant \in Variants
    /\ pc \in {"AwaitQuery", "Searching", "Fetching", "ReadingBody", "Ensure",
               "Embedding", "Returned", "Generating", "Streaming", "Exited",
               "Fatal", "Crashed"}
    /\ currentIndex \in 0..Len(results)
    /\ Len(genCalls) <= 2

\* --------------------------------------------- the ranker on its own inputs
\* source lists of up to MaxRankSources valid sources with any embeddings
RankInputs ==
    UNION {{[i \in 1..n |-> [url |-> i, text |-> MIN_VALID_LENGTH + 1,
                              embedding |-> f[i]]] : f \in [1..n -> Vecs]}
           : n \in 0..MaxRankSources}

InitRank ==
    /\ variant \in Variants
    /\ pc = "RankInput"
    /\ query = "trigger"
    /\ results = << >>
    /\ currentIndex = 0
    /\ sources \in RankInputs
    /\ content = NoContent
    /\ status = 0
    /\ processedText = 0
    /\ caller = "none"
    /\ modelEnsured = TRUE
    /\ embedFailures = 0
    /\ searchOutcome = "ok"
    /\ fetchCount = 0
    /\ collected = TRUE
    /\ queryEmbedding \in Vecs
    /\ ranked = << >>
    /\ genCalls = << >>
    /\ ensureLog = <<"ok">>
    /\ timerArmed = FALSE
    /\ staleTimers = 0
    /\ inflight = 0
    /\ fetchLog = << >>
    /\ stream = << >>
    /\ chunks = << >>
    /\ answer = << >>
    /\ echoed = << >>

\* generateWebAnswer / generateAnswer rank sources against queryEmbedding
RankSources ==
    /\ pc = "RankInput"
    /\ ranked' = Rank(queryEmbedding, sources)
    /\ pc' = "Ranked"
    /\ UNCHANGED <<variant, query, results, currentIndex, sources, content,
                   status, processedText, caller, modelEnsured, embedFailures,
                   searchOutcome, fetchCount, collected, queryEmbedding,
                   genCalls>>
    /\ UNCHANGED <<ensureLog, staleTimers, timerArmed, inflight, fetchLog, streamVars>>

NextRank == RankSources

SpecRank == InitRank /\ [][NextRank]_vars

\* ------------------------------------- the ranker on longer lists with ties
\* embeddings of similarity 1, 0, -1 and NaN to the query embedding <<1, 0>>
TieVecs == {<<1, 0>>, <<0, 1>>, <<-1, 0>>, <<0, 0>>}

\* the list of valid sources with the embeddings f[1], f[2], ...
TieSources(f) ==
    [i \in DOMAIN f |-> [url |-> i, text |-> MIN_VALID_LENGTH + 1,
                         embedding |-> f[i]]]

InitRankTies ==
    /\ variant \in Variants
    /\ pc = "RankInput"
    /\ query = "trigger"
    /\ results = << >>
    /\ currentIndex = 0
    /\ \E n \in 0..MaxTieSources :
           \E f \in [1..n -> TieVecs] : sources = TieSources(f)
    /\ content = NoContent
    /\ status = 0
    /\ processedText = 0
    /\ caller = "none"
    /\ modelEnsured = TRUE
    /\ embedFailures = 0
    /\ searchOutcome = "ok"
    /\ fetchCount = 0
    /\ collected = TRUE
    /\ queryEmbedding = <<1, 0>>
    /\ ranked = << >>
    /\ genCalls = << >>
    /\ ensureLog = <<"ok">>
    /\ timerArmed = FALSE
    /\ staleTimers = 0
    /\ inflight = 0
    /\ fetchLog = << >>
    /\ stream = << >>
    /\ chunks = << >>
    /\ answer = << >>
    /\ echoed = << >>

SpecRankTies == InitRankTies /\ [][NextRank]_vars

\* ------------------------------------------- the answer stream on its own
\* generateGeneralAnswer's stream is about to be read: any stream of up to
\* MaxStreamObjects objects, cut into chunks in any way
InitStream ==
    /\ variant = "modeSwitch"
    /\ pc = "Streaming"
    /\ query = "plain"
    /\ results = << >>
    /\ currentIndex = 0
    /\ sources = << >>
    /\ content = NoContent
    /\ status = 0
    /\ processedText = 0
    /\ caller = "none"
    /\ modelEnsured = FALSE
    /\ embedFailures = 0
    /\ searchOutcome = "none"
    /\ fetchCount = 0
    /\ collected = FALSE
    /\ queryEmbedding = << >>
    /\ ranked = << >>
    /\ genCalls = <<GenCall("general", 152, << >>)>>
    /\ ensureLog = << >>
    /\ timerArmed = FALSE
    /\ staleTimers = 0
    /\ inflight = 0
    /\ fetchLog = << >>
    /\ stream \in Streams
    /\ \E cuts \in SUBSET (1..(Len(Serialise(stream)) - 1)) :
           chunks = ChunksOf(Serialise(stream), cuts)
    /\ answer = << >>
    /\ echoed = << >>

NextStream ==
    \/ ReadChunk
    \/ StreamEnd

SpecStream == InitStream /\ [][NextStream]_vars

\* ================================================================== claims
\* position of the result with url u in the result list
PositionOf(u) == CHOOSE i \in 1..Len(results) : results[i].url = u

\* numeric x < y (false when either is NaN)
Lt(x, y) == ~x.nan /\ ~y.nan /\ x.val < y.val

Failed(call) == call.outcome \in {"http", "stream"}

\* C1: in both variants the accumulator of the Source Collector never holds
\* more than REQUIRED_LINKS (10) sources, during the loop and after it.
SourcesWithinQuota == Len(sources) <= REQUIRED_LINKS

\* C1 witness: the loop ended with the quota met after scanning past the
\* tenth result, and a result is left unfetched.
QuotaReachedWitness ==
    /\ collected
    /\ Len(sources) = REQUIRED_LINKS
    /\ currentIndex > REQUIRED_LINKS
    /\ currentIndex < Len(results)

\* C2: in both variants every element of the accumulator has text longer
\* than 100 characters, whatever fetches failed or came back short.
AccumulatorOnlyValid ==
    \A i \in 1..Len(sources) : Length(sources[i].text) > 100

\* C2 witness: main resumes with a source of exactly 100 characters after
\* it has collected a valid source and skipped an invalid one.
ShortSourceSkippedWitness ==
    /\ pc = "Returned"
    /\ Length(content.text) = 100
    /\ Len(sources) >= 1
    /\ currentIndex > Len(sources)

\* C3 as stated: in both variants, when collection ends the accumulator
\* holds REQUIRED_LINKS sources or every result has been fetched.
ScanUntilQuotaOrExhaustion ==
    collected => (Len(sources) = REQUIRED_LINKS \/ currentIndex = Len(results))

\* C3 amended: the mode-switch variant ends collection with the quota met or
\* the result list exhausted; the always-search variant ends it when the
\* first min(10, n) results have been fetched.
CollectionEnd ==
    collected =>
        IF variant = "modeSwitch"
        THEN Len(sources) = REQUIRED_LINKS \/ currentIndex = Len(results)
        ELSE currentIndex = Min(Len(results), SLICE_LIMIT)

\* C3 witness: the mode-switch scan went past the tenth result, over invalid
\* links, to meet the quota.
ScanPastInvalidWitness ==
    /\ collected
    /\ variant = "modeSwitch"
    /\ Len(sources) = REQUIRED_LINKS
    /\ currentIndex = REQUIRED_LINKS + 2

\* C4 as stated: the number of fetches is the position of the tenth valid
\* result once the quota is met, and the length of the result list when
\* collection ends without the quota.
FetchCountAtQuota ==
    /\ Len(sources) >= REQUIRED_LINKS =>
           fetchCount = PositionOf(sources[REQUIRED_LINKS].url)
    /\ (collected /\ Len(sources) < REQUIRED_LINKS) =>
           fetchCount = Len(results)

\* C4 amended: as stated, except that without the quota the always-search
\* variant ends after min(10, n) fetches.
FetchCountAtEnd ==
    /\ Len(sources) >= REQUIRED_LINKS =>
           fetchCount = PositionOf(sources[REQUIRED_LINKS].url)
    /\ (collected /\ Len(sources) < REQUIRED_LINKS) =>
           fetchCount = IF variant = "modeSwitch" THEN Len(results)
                        ELSE Min(Len(results), SLICE_LIMIT)

\* C4 witness: the quota was met at the eleventh result and the generation
\* call is under way with the twelfth result never fetched.
NoFetchAfterQuotaWitness ==
    /\ pc = "Generating"
    /\ Len(sources) = REQUIRED_LINKS
    /\ fetchCount = REQUIRED_LINKS + 1
    /\ Len(results) = REQUIRED_LINKS + 2

\* C5 as stated: a page fetch that did not get a 2xx response returns a
\* Source with empty text and empty embedding.
NonOkNeverYieldsText ==
    (pc = "Returned" /\ status # 200) =>
        (Length(content.text) = 0 /\ content.embedding = << >>)

\* C6 as stated: no failure aborts the interactive loop (only the fatal
\* availability check ends the process).
LoopNeverAborts == pc # "Crashed"

\* C7 as stated: after a failed search no page is fetched, nothing is ranked,
\* the Answer Generator is called with the knowledge-only prompt and nothing
\* is raised past the loop, in both variants.
SearchFailureFallsBack ==
    searchOutcome = "fail" =>
        /\ fetchCount = 0
        /\ ranked = << >>
        /\ Len(genCalls) >= 1
        /\ genCalls[1].prompt = "general"
        /\ pc # "Crashed"

\* C8 as stated: in both variants a collection that ends without sources
\* calls the general-answer path, and the ranked path is entered only with
\* at least one source.
NoSourcesGeneralAnswer ==
    /\ (collected /\ Len(sources) = 0) =>
           (Len(genCalls) >= 1 /\ genCalls[1].prompt = "general")
    /\ \A i \in 1..Len(genCalls) :
           genCalls[i].prompt = "web" => Len(sources) >= 1

\* C9 as stated: every failed generation call is caught and followed by a
\* call with the knowledge-only prompt, in both variants.
GenerationFailureFallsBack ==
    \A i \in 1..Len(genCalls) :
        Failed(genCalls[i]) =>
            /\ pc # "Crashed"
            /\ i < Len(genCalls)
            /\ genCalls[i + 1].prompt = "general"

\* C10 as stated: the ranker yields min(n, 3) of the supplied sources, none
\* twice, in non-increasing order of similarity, and no source left out is
\* more similar than a source kept.
RankerTopK ==
    pc = "Ranked" =>
        /\ Len(ranked) = Min(Len(sources), TOP_K)
        /\ \A i \in 1..Len(ranked) :
               \E j \in 1..Len(sources) :
                   /\ sources[j].url = ranked[i].url
                   /\ sources[j].embedding = ranked[i].embedding
                   /\ sources[j].text = ranked[i].text
        /\ \A i, j \in 1..Len(ranked) :
               i < j => /\ ranked[i].url # ranked[j].url
                        /\ ~Lt(ranked[i].similarity, ranked[j].similarity)
        /\ \A j \in 1..Len(sources) :
               (\A i \in 1..Len(ranked) : ranked[i].url # sources[j].url) =>
                   \A i \in 1..Len(ranked) :
                       ~Lt(ranked[i].similarity,
                           cosineSimilarity(queryEmbedding, sources[j].embedding))

\* has a run of ensureEmbeddingModelRunning failed
EnsureFailed == \E i \in 1..Len(ensureLog) : ensureLog[i] = "fail"

\* C11: the availability check runs only for the first embed of the process:
\* it runs at most once, the flag is true exactly when it has succeeded (so
\* it goes from false to true at most once and is never reset), no embedding
\* request is pending while the flag is false, and no check is pending once
\* the flag is true.
EnsureOnlyOnFirstEmbed ==
    /\ Len(ensureLog) <= 1
    /\ modelEnsured <=> ensureLog = <<"ok">>
    /\ pc = "Embedding" => modelEnsured
    /\ pc = "Ensure" => ~modelEnsured /\ ensureLog = << >>

\* C11 witness: after one successful check and the embeddings of two
\* collected pages, the query is being embedded with no further check.
EnsureOnceWitness ==
    /\ pc = "Embedding"
    /\ caller = "query"
    /\ Len(sources) >= 2
    /\ ensureLog = <<"ok">>

\* C12: a failed availability check is fatal: from then on the process is
\* terminated (nothing is read, fetched, embedded, ranked or generated any
\* more: no step leaves the state) and the flag has not been set.
EnsureFailureIsFatal ==
    /\ [](EnsureFailed => pc = "Fatal" /\ ~modelEnsured)
    /\ [][~EnsureFailed]_vars

\* C12 witness: the check failed on the first page's embed, reached from
\* inside fetchPageContent's try block.
EnsureFatalWitness ==
    /\ pc = "Fatal"
    /\ caller = "page"
    /\ inflight = 1
    /\ ensureLog = <<"fail">>

\* C13: a failed embedding request is not fatal: getEmbedding returns the
\* empty vector to its caller, nothing is raised and the flag is unchanged;
\* a returned page with text longer than 100 and an empty embedding is
\* appended to the accumulator as it is.
EmbedFailureNotFatal ==
    [][/\ (embedFailures' = embedFailures + 1) =>
            /\ pc = "Embedding"
            /\ modelEnsured' = modelEnsured
            /\ pc' \notin {"Fatal", "Crashed"}
            /\ caller = "page" =>
                   /\ pc' = "Returned"
                   /\ content' = [url |-> CurrentUrl, text |-> processedText,
                                  embedding |-> << >>]
            /\ caller = "query" =>
                   /\ pc' = "Generating"
                   /\ queryEmbedding' = << >>
       /\ (pc = "Returned" /\ currentIndex' = currentIndex + 1
                           /\ Length(content.text) > MIN_VALID_LENGTH
                           /\ content.embedding = << >>) =>
            sources' = Append(sources, content)]_vars

\* C13 witness: the embedding request of the second page failed after that
\* of the first had succeeded; the page has been collected with its text and
\* an empty embedding, next to the embedded one, the flag still set.
EmptyEmbeddingCollectedWitness ==
    /\ embedFailures = 1
    /\ modelEnsured
    /\ Len(sources) = 2
    /\ sources[1].embedding # << >>
    /\ sources[2].embedding = << >>
    /\ Length(sources[2].text) > MIN_VALID_LENGTH

\* C14: in the mode-switch variant a query without the trigger goes to the
\* general answer with no search, no fetch, no embed and exactly one
\* generator call, with the knowledge-only prompt; a query with the trigger,
\* and every query of the always-search variant, goes to the web search.
ClassifyRoutes ==
    /\ (variant = "modeSwitch" /\ query = "plain") =>
           /\ pc \in {"Generating", "Streaming", "AwaitQuery", "Crashed"}
           /\ searchOutcome = "none"
           /\ fetchCount = 0 /\ fetchLog = << >> /\ inflight = 0
           /\ queryEmbedding = << >> /\ ranked = << >>
           /\ Len(genCalls) = 1
           /\ genCalls[1].prompt = "general" /\ genCalls[1].tags = << >>
    /\ (query = "trigger" \/ (variant = "alwaysSearch" /\ query = "plain")) =>
           \/ pc = "Searching" /\ genCalls = << >>
           \/ searchOutcome # "none"

\* C14 witness: the mode-switch variant answered a query without the
\* trigger, after an earlier query had set the flag.
GeneralRouteWitness ==
    /\ variant = "modeSwitch"
    /\ query = "plain"
    /\ pc = "AwaitQuery"
    /\ modelEnsured
    /\ genCalls[1].outcome = "ok"

\* the response fields of the objects of a stream, concatenated in order
RECURSIVE ResponsesOf(_)
ResponsesOf(objs) ==
    IF objs = << >> THEN << >>
    ELSE (IF Len(Head(objs)) = 3 THEN <<Head(objs)[2]>> ELSE << >>)
             \o ResponsesOf(Tail(objs))

\* C15 as stated: however the stream is cut into chunks, what has been
\* echoed is what has been added to the answer, and at the stream end the
\* answer is the concatenation, in order, of the response fields of all
\* objects of the stream.
StreamAnswerComplete ==
    /\ echoed = answer
    /\ pc = "AwaitQuery" => answer = ResponsesOf(stream)

\* C16 as stated: the timer covers the whole HTTP request of a page fetch,
\* up to and including the reading of the response body: while the request
\* or its body is outstanding the timer is pending, so that its firing ends
\* the call.
FetchBoundedByTimer ==
    (inflight = 1 /\ pc \in {"Fetching", "ReadingBody"}) => timerArmed

\* C17: a similarity computed for vectors of different lengths, or with an
\* empty vector, is the number 0 (not NaN): a source whose embedding is empty
\* or of another length than the query's is ranked with similarity 0, and
\* with an empty query embedding every ranked source has similarity 0.
GuardedSimilarityIsZero ==
    pc = "Ranked" =>
        \A i \in 1..Len(ranked) :
            (\/ Len(ranked[i].embedding) # Len(queryEmbedding)
             \/ Len(ranked[i].embedding) = 0
             \/ Len(queryEmbedding) = 0) =>
                ranked[i].similarity = Num(0)

\* C17 witness: against a two-component query embedding, a source with an
\* empty embedding and a source with a one-component embedding were ranked,
\* next to a source of similarity 1.
GuardedSimilarityWitness ==
    /\ pc = "Ranked"
    /\ queryEmbedding = <<1, 0>>
    /\ Len(ranked) = TOP_K
    /\ ranked[1].similarity = Num(1)
    /\ \E i, j \in 1..Len(ranked) :
           /\ ranked[i].embedding = << >>
           /\ ranked[j].embedding = <<1>>

\* similarities that are numbers and equal
SameScore(x, y) == ~x.nan /\ ~y.nan /\ x.val = y.val

\* C18 as stated: sources of equal similarity appear in the ranked output in
\* collection order, a source left out is never one collected before a
\* ranked source of the same similarity, and when all similarities are equal
\* the output is the first K collected sources in order.
RankerStable ==
    pc = "Ranked" =>
        /\ \A i, j \in 1..Len(ranked) :
               (i < j /\ SameScore(ranked[i].similarity, ranked[j].similarity))
                   => ranked[i].url < ranked[j].url
        /\ \A i \in 1..Len(ranked), j \in 1..Len(sources) :
               (/\ \A k \in 1..Len(ranked) : ranked[k].url # sources[j].url
                /\ SameScore(ranked[i].similarity,
                             cosineSimilarity(queryEmbedding, sources[j].embedding)))
                   => ranked[i].url < sources[j].url
        /\ (\A i, j \in 1..Len(sources) :
                SameScore(cosineSimilarity(queryEmbedding, sources[i].embedding),
                          cosineSimilarity(queryEmbedding, sources[j].embedding)))
               => PromptTags(ranked)
                      = [i \in 1..Min(Len(sources), TOP_K) |-> sources[i].url]

\* C19: the collector handles one link at a time: at most one call of
\* fetchPageContent (its embedding request included) is pending, a call is
\* pending exactly between its issue and its return, and the urls fetched
\* for the query are those of the first fetchCount results, in list order,
\* each once.
OneFetchAtATime ==
    /\ inflight \in {0, 1}
    /\ inflight = 1 <=>
           \/ pc \in {"Fetching", "ReadingBody"}
           \/ pc \in {"Ensure", "Embedding", "Fatal"} /\ caller = "page"
    /\ inflight = 1 => fetchCount = currentIndex + 1
    /\ fetchLog = [i \in 1..fetchCount |-> results[i].url]
    /\ \A i, j \in 1..Len(fetchLog) : i < j => fetchLog[i] # fetchLog[j]

\* C19 witness: the fourth link is being fetched after three calls have
\* returned, one of them with a source that was kept.
SequentialFetchWitness ==
    /\ pc = "ReadingBody"
    /\ inflight = 1
    /\ fetchLog = <<1, 2, 3, 4>>
    /\ currentIndex = 3
    /\ Len(sources) >= 1

\* the web-grounded prompts built from at most K sources tag each of them
TagsCover ==
    \A k \in 1..Len(genCalls) :
        (genCalls[k].prompt = "web" /\ Len(sources) <= TOP_K) =>
            \A i \in 1..Len(sources) :
                \E t \in 1..Len(genCalls[k].tags) :
                    genCalls[k].tags[t] = sources[i].url

\* C20: the accumulator is the subsequence of the valid Sources returned
\* for the results scanned, in list order: each returned Source with text
\* longer than 100 is appended as it is, any other is left out, nothing else
\* changes the accumulator during a query, its urls are in list order without
\* repetition; and a web-grounded prompt built from at most K sources has a
\* tag for each of them.
CollectedIsValidSubsequence ==
    [][/\ currentIndex' = currentIndex + 1 =>
            /\ pc = "Returned"
            /\ sources' = IF Length(content.text) > MIN_VALID_LENGTH
                          THEN Append(sources, content)
                          ELSE sources
       /\ (pc # "AwaitQuery" /\ currentIndex' = currentIndex) =>
            sources' = sources
       /\ \A i, j \in 1..Len(sources') :
              i < j => sources'[i].url < sources'[j].url
       /\ \A i \in 1..Len(sources') : sources'[i].url <= currentIndex'
       /\ TagsCover']_vars

\* C20 witness: of three results the first and the third were valid and the
\* second was not; exactly these two were collected, in order, and the
\* web-grounded prompt has a tag for each.
TwoOfThreeWitness ==
    /\ collected
    /\ Len(results) = 3
    /\ currentIndex = 3
    /\ PromptTags(sources) = <<1, 3>>
    /\ Len(genCalls) = 1
    /\ genCalls[1].prompt = "web"
    /\ Len(genCalls[1].tags) = 2

====
